---- MODULE Spec2Model ----
(***************************************************************************)
(* Model of task_manager.py: the Database store (one aiosqlite connection  *)
(* over the file tasks.db), the TaskRepository composite workflow and the   *)
(* main() script.  The database file outlives a connection and a process,  *)
(* so the tables persist across connect/close and across runs of main().   *)
(***************************************************************************)
EXTENDS Integers, Sequences, FiniteSets, TLC

VARIABLES users, tasks, schema, connection, foreign_keys, pc, closeCalls,
          op, result, before, created

vars == <<users, tasks, schema, connection, foreign_keys, pc, closeCalls,
          op, result, before, created>>

(* ------------------------------ bounds -------------------------------- *)
\* most rows the tasks table is let to grow to
MaxTasks == 3

(* ------------------------------ values -------------------------------- *)
\* Python's None, also the value of "no exception was raised"
None == "None"
\* SQL NULL / a None passed where a string is expected
NULL == "NULL"

Usernames == {"interview_user", "alice"}
Emails == {"interview@example.com", "duplicate@example.com"}
Titles == {"t1", NULL}
Descriptions == {NULL}
UserIds == {1, 2}
DemoTasks == <<"Study Python", "Prepare for interview", "Build async project">>
TitleLists == {<<>>, <<"t1", "t2">>, <<"t1", NULL, "t2">>}

AllTables == {"users", "tasks"}

\* what a method hands back: the database it leaves, the exception that
\* leaves the method (None when it returns), the returned value and the
\* lines it printed. The value is a sequence: <<>> for Python's None, <<d>>
\* for one dict, the list itself for a list of dicts.
Outcome(db, raised, value, printed) ==
  [db |-> db, raised |-> raised, value |-> value, printed |-> printed]

\* AUTOINCREMENT: one more than the largest id the table ever held (rows are
\* never deleted, and a failed INSERT is undone together with its sequence
\* update)
NextId(rows) ==
  IF rows = <<>> THEN 1
  ELSE (CHOOSE m \in {rows[i].id : i \in DOMAIN rows} :
          \A i \in DOMAIN rows : rows[i].id <= m) + 1

\* self.connection.execute(query, ...): the attribute lookup, then
\* aiosqlite's check of the connection, then the statement itself. needs is
\* the set of tables the statement names; fault is a failure of the statement
\* below the program (I/O error, locked file).
execute(db, needs, fault) ==
  IF db.connection = "absent" THEN "AttributeError"
  ELSE IF db.connection = "closed" THEN "ValueError"
  ELSE IF ~(needs \subseteq db.schema) THEN "OperationalError"
  ELSE IF fault THEN "OperationalError"
  ELSE None

\* UNIQUE on users.username and on users.email
UniqueViolation(rows, username, email) ==
  \E i \in DOMAIN rows : rows[i].username = username \/ rows[i].email = email

HasUser(rows, user_id) == \E i \in DOMAIN rows : rows[i].id = user_id

\* the two CREATE TABLE IF NOT EXISTS statements and the commit. failAt is
\* the number of the statement of connect() that hits a fault (0: none;
\* 1: aiosqlite.connect; 2: the DDL of users; 3: the DDL of tasks).
create_tables(db, failAt) ==
  IF failAt = 2 THEN Outcome(db, "OperationalError", <<>>, <<>>)
  ELSE IF failAt = 3
    THEN Outcome([db EXCEPT !.schema = @ \cup {"users"}], "OperationalError", <<>>, <<>>)
  ELSE Outcome([db EXCEPT !.schema = AllTables], None, <<>>, <<"tables ready">>)

connect(db, failAt) ==
  IF failAt = 1 THEN Outcome(db, "OperationalError", <<>>, <<>>)
  ELSE LET t == create_tables([db EXCEPT !.connection = "open"], failAt)
       IN IF t.raised # None THEN t
          ELSE Outcome(t.db, None, <<>>, t.printed \o <<"connection established">>)

\* create_user binding its parameters in the wrong order
create_user_swapped(db, username, email, fault) ==
  LET err == execute(db, {"users"}, fault)
  IN IF err # None THEN Outcome(db, err, <<>>, <<>>)
     ELSE IF UniqueViolation(db.users, username, email)
       THEN Outcome(db, None, <<>>, <<"already exists">>)
     ELSE Outcome([db EXCEPT !.users = Append(@,
                     [id |-> NextId(db.users), username |-> email, email |-> username])],
                  None, <<>>, <<"user created">>)

create_user(db, username, email, fault) ==
  LET err == execute(db, {"users"}, fault)
  IN IF err # None THEN Outcome(db, err, <<>>, <<>>)
     ELSE IF UniqueViolation(db.users, username, email)
       THEN Outcome(db, None, <<>>, <<"already exists">>)
     ELSE Outcome([db EXCEPT !.users = Append(@,
                     [id |-> NextId(db.users), username |-> username, email |-> email])],
                  None, <<>>, <<"user created">>)

\* NOT NULL on tasks.title; FOREIGN KEY (user_id) only where the library
\* enforces foreign keys by default, since connect() never issues
\* PRAGMA foreign_keys = ON
create_task(db, title, user_id, description, fault) ==
  LET err == execute(db, IF foreign_keys THEN AllTables ELSE {"tasks"}, fault)
  IN IF err # None THEN Outcome(db, err, <<>>, <<>>)
     ELSE IF title = NULL THEN Outcome(db, "IntegrityError", <<>>, <<>>)
     ELSE IF foreign_keys /\ ~HasUser(db.users, user_id)
       THEN Outcome(db, "IntegrityError", <<>>, <<>>)
     ELSE Outcome([db EXCEPT !.tasks = Append(@,
                     [id |-> NextId(db.tasks), title |-> title,
                      description |-> description, status |-> "pending",
                      user_id |-> user_id])],
                  None, <<>>, <<"task created">>)

\* one row of tasks JOIN users ON tasks.user_id = users.id, as a dict
JoinRow(t, u) ==
  [id |-> t.id, title |-> t.title, description |-> t.description,
   status |-> t.status, username |-> u.username]

RECURSIVE JoinRows(_, _, _)
JoinRows(db, user_id, i) ==
  IF i > Len(db.tasks) THEN <<>>
  ELSE LET t == db.tasks[i]
           owners == {j \in DOMAIN db.users :
                        db.users[j].id = t.user_id /\ db.users[j].id = user_id}
       IN (IF owners = {} THEN <<>>
           ELSE <<JoinRow(t, db.users[CHOOSE j \in owners : TRUE])>>)
          \o JoinRows(db, user_id, i + 1)

get_user_tasks(db, user_id, fault) ==
  LET err == execute(db, AllTables, fault)
  IN IF err # None THEN Outcome(db, err, <<>>, <<>>)
     ELSE Outcome(db, None, JoinRows(db, user_id, 1), <<>>)

\* get_user_by_id with `except Exception` in place of `except aiosqlite.Error`
get_user_by_id_catch_all(db, user_id, fault) ==
  LET err == execute(db, {"users"}, fault)
  IN IF err # None THEN Outcome(db, None, <<>>, <<"database error">>)
     ELSE IF HasUser(db.users, user_id)
       THEN Outcome(db, None,
                    <<db.users[CHOOSE i \in DOMAIN db.users : db.users[i].id = user_id]>>,
                    <<>>)
     ELSE Outcome(db, None, <<>>, <<>>)

get_user_by_id(db, user_id, fault) ==
  LET err == execute(db, {"users"}, fault)
  IN IF err = "OperationalError" THEN Outcome(db, None, <<>>, <<"database error">>)
     ELSE IF err # None THEN Outcome(db, err, <<>>, <<>>)
     ELSE IF HasUser(db.users, user_id)
       THEN Outcome(db, None,
                    <<db.users[CHOOSE i \in DOMAIN db.users : db.users[i].id = user_id]>>,
                    <<>>)
     ELSE Outcome(db, None, <<>>, <<>>)

\* close without the hasattr guard
close_unguarded(db) ==
  IF db.connection = "absent" THEN Outcome(db, "AttributeError", <<>>, <<>>)
  ELSE Outcome([db EXCEPT !.connection = "closed"], None, <<>>, <<"connection closed">>)

\* hasattr(self, 'connection'), then aiosqlite's close(), which returns at
\* once on a connection that is already closed
close(db) ==
  IF db.connection = "absent" THEN Outcome(db, None, <<>>, <<>>)
  ELSE Outcome([db EXCEPT !.connection = "closed"], None, <<>>, <<"connection closed">>)


\* the loop `for task_title in tasks: await self.db.create_task(...)`, from
\* the i-th title on; a raise leaves the loop. failAt is the number of the
\* statement of the workflow that hits a fault (0: none; 1: the INSERT of the
\* user; i + 1: the INSERT of the i-th task).
RECURSIVE for_task_title(_, _, _, _, _, _)
for_task_title(db, titles, i, user_id, failAt, printed) ==
  IF i > Len(titles) THEN Outcome(db, None, <<>>, printed)
  ELSE LET t == create_task(db, titles[i], user_id, NULL, failAt = i + 1)
       IN IF t.raised # None THEN Outcome(t.db, t.raised, <<>>, printed \o t.printed)
          ELSE for_task_title(t.db, titles, i + 1, user_id, failAt, printed \o t.printed)

\* the id the workflow gives to every task it creates
assumed_user_id(db) == 1

create_user_and_tasks(db, username, email, titles, failAt) ==
  LET u == create_user(db, username, email, failAt = 1)
  IN IF u.raised # None
       THEN Outcome(u.db, None, <<>>, u.printed \o <<"failed to create user and tasks">>)
     ELSE LET r == for_task_title(u.db, titles, 1, assumed_user_id(u.db), failAt, u.printed)
          IN IF r.raised # None
               THEN Outcome(r.db, None, <<>>,
                            r.printed \o <<"failed to create user and tasks">>)
             ELSE Outcome(r.db, None, <<>>, r.printed \o <<"successfully created">>)

(* ------------------------------ state --------------------------------- *)
\* the Database object together with the file it is connected to
Db == [users |-> users, tasks |-> tasks, schema |-> schema, connection |-> connection]

\* the call just made, with its arguments (None, NoId or <<>> where it has
\* none) and the number of its statement that hit a fault (0: none)
NoId == 0
Op(name, username, email, title, user_id, titles, failAt) ==
  [name |-> name, username |-> username, email |-> email, title |-> title,
   user_id |-> user_id, titles |-> titles, failAt |-> failAt]
NoArgs(name) == Op(name, None, None, None, NoId, <<>>, 0)

\* positions of main(): the call it is about to make
MainSteps == <<"connect", "create_user_and_tasks", "get_user_by_id",
               "get_user_tasks", "create_user", "finally", "done">>
MainPcs == {MainSteps[i] : i \in 1..6}

\* where main() goes after the call at `step`: an exception inside the try
\* block goes to the finally clause, and so does the end of the block
\* main() with db.close() at the end of the try block, not in a finally
MainNext_no_finally(step, raised) ==
  IF raised # None THEN "done"
  ELSE MainSteps[(CHOOSE i \in 1..6 : MainSteps[i] = step) + 1]

MainNext(step, raised) ==
  IF raised # None THEN "finally"
  ELSE MainSteps[(CHOOSE i \in 1..6 : MainSteps[i] = step) + 1]

\* A new file: no tables, and a Database object without a connection.
\* foreign_keys is the SQLite library's compiled-in default for foreign key
\* enforcement (SQLITE_DEFAULT_FOREIGN_KEYS; off in the stock library), which
\* connect() never changes.
Init ==
  /\ users = <<>>
  /\ tasks = <<>>
  /\ schema = {}
  /\ connection = "absent"
  /\ foreign_keys \in BOOLEAN
  /\ pc = "idle"
  /\ closeCalls = 0
  /\ op = NoArgs("__init__")
  /\ result = [raised |-> None, value |-> <<>>, printed |-> <<>>]
  /\ before = [users |-> <<>>, tasks |-> <<>>, schema |-> {}, connection |-> "absent"]
  /\ created = <<>>

\* the state after a call with outcome o
Step(o, call, nextpc) ==
  /\ users' = o.db.users
  /\ tasks' = o.db.tasks
  /\ schema' = o.db.schema
  /\ connection' = o.db.connection
  /\ result' = [raised |-> o.raised, value |-> o.value, printed |-> o.printed]
  /\ op' = call
  /\ before' = Db
  /\ pc' = nextpc
  /\ UNCHANGED foreign_keys

\* what a createUser call that inserted a row was given, with the id the
\* table generated for the row; <<>> when it inserted none
Inserted(o, username, email) ==
  IF Len(o.db.users) > Len(users)
    THEN <<[id |-> o.db.users[Len(o.db.users)].id, username |-> username, email |-> email]>>
  ELSE <<>>

(* ---------------- calls of a client of Database/TaskRepository --------- *)
\* db = Database(): a new object, without a connection attribute
NewDatabase ==
  /\ pc \in {"idle", "done"}
  /\ Step(Outcome([Db EXCEPT !.connection = "absent"], None, <<>>, <<>>),
          NoArgs("__init__"), "idle")
  /\ closeCalls' = 0
  /\ created' = <<>>

Connect ==
  /\ pc = "idle"
  /\ \E failAt \in 0..3 :
       Step(connect(Db, failAt), Op("connect", None, None, None, NoId, <<>>, failAt), "idle")
  /\ created' = <<>>
  /\ UNCHANGED closeCalls

CreateUser ==
  /\ pc = "idle"
  /\ \E username \in Usernames, email \in Emails, failAt \in 0..1 :
       LET o == create_user(Db, username, email, failAt = 1)
       IN /\ Step(o, Op("create_user", username, email, None, NoId, <<>>, failAt), "idle")
          /\ created' = Inserted(o, username, email)
  /\ UNCHANGED closeCalls

CreateTask ==
  /\ pc = "idle"
  /\ Len(tasks) < MaxTasks
  /\ \E title \in Titles, user_id \in UserIds, description \in Descriptions,
        failAt \in 0..1 :
       Step(create_task(Db, title, user_id, description, failAt = 1),
            Op("create_task", None, None, title, user_id, <<>>, failAt), "idle")
  /\ created' = <<>>
  /\ UNCHANGED closeCalls

GetUserTasks ==
  /\ pc = "idle"
  /\ \E user_id \in UserIds, failAt \in 0..1 :
       Step(get_user_tasks(Db, user_id, failAt = 1),
            Op("get_user_tasks", None, None, None, user_id, <<>>, failAt), "idle")
  /\ UNCHANGED <<closeCalls, created>>

GetUserById ==
  /\ pc = "idle"
  /\ \E user_id \in UserIds, failAt \in 0..1 :
       Step(get_user_by_id(Db, user_id, failAt = 1),
            Op("get_user_by_id", None, None, None, user_id, <<>>, failAt), "idle")
  /\ UNCHANGED <<closeCalls, created>>

Close ==
  /\ pc = "idle"
  /\ Step(close(Db), NoArgs("close"), "idle")
  /\ created' = <<>>
  /\ UNCHANGED closeCalls

CreateUserAndTasks ==
  /\ pc = "idle"
  /\ \E username \in Usernames, email \in Emails, titles \in TitleLists :
       /\ Len(tasks) + Len(titles) <= MaxTasks
       /\ \E failAt \in 0..(Len(titles) + 1) :
            Step(create_user_and_tasks(Db, username, email, titles, failAt),
                 Op("create_user_and_tasks", username, email, None, NoId, titles, failAt),
                 "idle")
  /\ created' = <<>>
  /\ UNCHANGED closeCalls

(* ------------------------------- main() -------------------------------- *)
\* a run of the program starts: db = Database(); task_repo = TaskRepository(db)
StartMain ==
  /\ pc \in {"idle", "done"}
  /\ Len(tasks) + Len(DemoTasks) <= MaxTasks
  /\ Step(Outcome([Db EXCEPT !.connection = "absent"], None, <<>>, <<>>),
          NoArgs("main"), "connect")
  /\ closeCalls' = 0
  /\ created' = <<>>

MainConnect ==
  /\ pc = "connect"
  /\ \E failAt \in 0..3 :
       LET o == connect(Db, failAt)
       IN Step(o, Op("connect", None, None, None, NoId, <<>>, failAt), MainNext(pc, o.raised))
  /\ UNCHANGED <<closeCalls, created>>

MainCreateUserAndTasks ==
  /\ pc = "create_user_and_tasks"
  /\ \E failAt \in 0..(Len(DemoTasks) + 1) :
       LET o == create_user_and_tasks(Db, "interview_user", "interview@example.com",
                                      DemoTasks, failAt)
       IN Step(o, Op("create_user_and_tasks", "interview_user", "interview@example.com",
                     None, NoId, DemoTasks, failAt),
               MainNext(pc, o.raised))
  /\ UNCHANGED <<closeCalls, created>>

MainGetUserById ==
  /\ pc = "get_user_by_id"
  /\ \E failAt \in 0..1 :
       LET o == get_user_by_id(Db, 1, failAt = 1)
       IN Step(o, Op("get_user_by_id", None, None, None, 1, <<>>, failAt),
               MainNext(pc, o.raised))
  /\ UNCHANGED <<closeCalls, created>>

MainGetUserTasks ==
  /\ pc = "get_user_tasks"
  /\ \E failAt \in 0..1 :
       LET o == get_user_tasks(Db, 1, failAt = 1)
       IN Step(o, Op("get_user_tasks", None, None, None, 1, <<>>, failAt),
               MainNext(pc, o.raised))
  /\ UNCHANGED <<closeCalls, created>>

MainCreateUser ==
  /\ pc = "create_user"
  /\ \E failAt \in 0..1 :
       LET o == create_user(Db, "interview_user", "duplicate@example.com", failAt = 1)
       IN /\ Step(o, Op("create_user", "interview_user", "duplicate@example.com",
                        None, NoId, <<>>, failAt),
                  MainNext(pc, o.raised))
          /\ created' = Inserted(o, "interview_user", "duplicate@example.com")
  /\ UNCHANGED closeCalls

MainFinally ==
  /\ pc = "finally"
  /\ Step(close(Db), NoArgs("close"), MainNext(pc, None))
  /\ closeCalls' = closeCalls + 1
  /\ created' = <<>>

MainStep ==
  \/ MainConnect
  \/ MainCreateUserAndTasks
  \/ MainGetUserById
  \/ MainGetUserTasks
  \/ MainCreateUser
  \/ MainFinally

Next ==
  \/ NewDatabase
  \/ Connect
  \/ CreateUser
  \/ CreateTask
  \/ GetUserTasks
  \/ GetUserById
  \/ Close
  \/ CreateUserAndTasks
  \/ StartMain
  \/ MainStep

Spec == Init /\ [][Next]_vars

\* the runs of the program alone, on the file its earlier runs left: main()
\* is a coroutine that asyncio.run drives to completion, so a run that has
\* started keeps taking steps
MainRun ==
  \/ StartMain
  \/ MainStep

MainSpec == Init /\ [][MainRun]_vars /\ WF_vars(MainStep)


(* ------------------------------ properties ----------------------------- *)
Range(seq) == {seq[i] : i \in DOMAIN seq}

\* the call was made on an open connection to a file holding both tables
Ready == before.connection = "open" /\ before.schema = AllTables

\* the rows the call added
NewUsers == SubSeq(users, Len(before.users) + 1, Len(users))
NewTasks == SubSeq(tasks, Len(before.tasks) + 1, Len(tasks))
StoreUnchanged ==
  users = before.users /\ tasks = before.tasks /\ schema = before.schema

Duplicate == UniqueViolation(before.users, op.username, op.email)

\* the exception a call on a closed connection ends with: aiosqlite's
\* ValueError("Connection closed"), the ConnectionError of this store
ConnectionError == "ValueError"
\* the exception of a violated UNIQUE or FOREIGN KEY constraint
DuplicateKeyError == "IntegrityError"
ForeignKeyError == "IntegrityError"

\* C1: createUserAndTasks for a (username, email) not yet present creates one
\* task per title, in the order given, and every one of them has user_id
\* equal to the id generated for the user just created.
C1_TasksCarryGeneratedId ==
  (/\ op.name = "create_user_and_tasks"
   /\ Ready
   /\ op.failAt = 0
   /\ NULL \notin Range(op.titles)
   /\ ~Duplicate)
  => /\ Len(NewUsers) = 1
     /\ Len(NewTasks) = Len(op.titles)
     /\ \A i \in DOMAIN NewTasks :
          /\ NewTasks[i].title = op.titles[i]
          /\ NewTasks[i].user_id = NewUsers[1].id

\* the number of the first createTask step of the workflow that fails, and
\* Len(titles) + 1 when none does
FirstFailing(titles, failAt) ==
  LET failing == {i \in DOMAIN titles : titles[i] = NULL \/ failAt = i + 1}
  IN IF failing = {} THEN Len(titles) + 1
     ELSE CHOOSE i \in failing : \A j \in failing : i <= j

\* C2: in createUserAndTasks the first failing step halts the workflow: when
\* the createUser step fails (username or email already present) no
\* createTask step runs and the tasks table is unchanged; when the k-th
\* createTask fails no later createTask runs.
C2_FirstFailureHalts ==
  (op.name = "create_user_and_tasks" /\ Ready)
  => /\ (Duplicate \/ op.failAt = 1) => tasks = before.tasks
     /\ ~(Duplicate \/ op.failAt = 1)
          => Len(NewTasks) = FirstFailing(op.titles, op.failAt) - 1

\* C3: createUserAndTasks is all-or-nothing: after it returns either the
\* user row and a task row for every title have been added, or the store
\* holds exactly the rows it held before.
C3_AllOrNothing ==
  op.name = "create_user_and_tasks"
  => \/ StoreUnchanged
     \/ /\ Len(NewUsers) = 1
        /\ Len(NewTasks) = Len(op.titles)
        /\ \A i \in DOMAIN NewTasks : NewTasks[i].title = op.titles[i]

\* no two user rows share a username and no two share an email
UsersUnique ==
  \A i, j \in DOMAIN users :
    (users[i].username = users[j].username \/ users[i].email = users[j].email) => i = j

\* C4: createUser with a username or an email already present fails with
\* DuplicateKeyError reported to its caller and leaves the users table
\* unchanged; hence usernames and emails are unique in every state.
C4_DuplicateReported ==
  /\ UsersUnique
  /\ (op.name = "create_user" /\ Ready /\ op.failAt = 0 /\ Duplicate)
       => (result.raised = DuplicateKeyError /\ users = before.users)

\* C5: every task row's user_id is the id of an existing user row:
\* createTask with a userId that matches no user row fails with
\* ForeignKeyError and creates no row.
C5_TasksReferenceUsers ==
  /\ \A i \in DOMAIN tasks : HasUser(users, tasks[i].user_id)
  /\ (op.name = "create_task" /\ Ready /\ op.failAt = 0
        /\ ~HasUser(before.users, op.user_id))
       => (result.raised = ForeignKeyError /\ tasks = before.tasks)

\* C6: getUserTasks(userId) returns exactly the task rows whose user_id
\* equals userId, none missing and none extra, each with its owner's
\* username, the empty sequence when there are none, and leaves the store
\* as it was.
C6_UserTasksExact ==
  (op.name = "get_user_tasks" /\ Ready /\ op.failAt = 0)
  => /\ result.raised = None
     /\ StoreUnchanged
     /\ {result.value[i].id : i \in DOMAIN result.value}
          = {tasks[i].id : i \in {j \in DOMAIN tasks : tasks[j].user_id = op.user_id}}
     /\ \A i, j \in DOMAIN result.value :
          result.value[i].id = result.value[j].id => i = j
     /\ \A i \in DOMAIN result.value :
          \E j \in DOMAIN users :
            /\ users[j].id = op.user_id
            /\ users[j].username = result.value[i].username

\* C7: a successful createUser followed by getUserById with the id generated
\* for that user yields a record with the username and email passed in;
\* getUserById with an id that matches no row yields not-found, never an
\* error.
C7_CreateThenGet ==
  (op.name = "get_user_by_id" /\ before.connection = "open")
  => /\ (created # <<>> /\ op.failAt = 0 /\ op.user_id = created[1].id)
          => (result.raised = None /\ result.value = created)
     /\ ~HasUser(users, op.user_id)
          => (result.raised = None /\ result.value = <<>>)

C7_Witness ==
  /\ op.name = "get_user_by_id"
  /\ before.connection = "open"
  /\ created # <<>>
  /\ op.failAt = 0
  /\ op.user_id = created[1].id
  /\ created[1].id = 2
  /\ result.value # <<>>

\* C8: close() never fails: it is a no-op when no connection was ever made,
\* it releases an open connection, and a second close() leaves the state as
\* the first one left it.
C8_CloseNeverFails ==
  op.name = "close"
  => /\ result.raised = None
     /\ StoreUnchanged
     /\ before.connection = "absent" => connection = "absent"
     /\ before.connection # "absent" => connection = "closed"

C8_Witness ==
  /\ op.name = "close"
  /\ before.connection = "closed"
  /\ connection = "closed"
  /\ result.raised = None

C10_MainAlwaysCloses ==
  /\ [](closeCalls <= 1)
  /\ [](pc = "done" => (closeCalls = 1 /\ connection # "open"))
  /\ (pc \in MainPcs /\ connection = "open") ~> (pc = "done" /\ connection = "closed")

C10_Witness ==
  /\ pc = "done"
  /\ closeCalls = 1
  /\ connection = "closed"
  /\ before.connection = "open"
  /\ Len(tasks) > 0

====
